---- MODULE Spec2Model ----
(***************************************************************************)
(* Model of native_package_install.py: the vendoring pipeline of main      *)
(* (read manifest, parse, filter, fetch, update configs, munge names), the *)
(* find/sed child processes munge_names launches, and the pure path and    *)
(* name helpers.  A Python string is a sequence of one-character strings,  *)
(* so that split, lstrip, rstrip, replace, count and os.path.join are      *)
(* computed character by character as the library computes them.           *)
(***************************************************************************)
EXTENDS Naturals, Sequences, FiniteSets

\* ------------------------------------------------------------ bounds

\* Most entries in the manifest.
MaxPkgs == 2
\* Most paths given with --elm-config.
MaxConfigs == 2
\* Most consecutive invocations of main on the same disk.
MaxRuns == 2
\* Longest text between the host prefix and the suffix of a repository url.
MaxBody == 3

\* ------------------------------------------------------------ strings

Range(s) == {s[i] : i \in DOMAIN s}

Min(S) == CHOOSE x \in S : \A y \in S : x <= y

Max(S) == CHOOSE x \in S : \A y \in S : y <= x

\* str.count(c) for a one-character c.
Count(s, c) == Cardinality({i \in DOMAIN s : s[i] = c})

\* Number of times the element p occurs in the list l.
Occurrences(l, p) == Cardinality({i \in DOMAIN l : l[i] = p})

\* str.lstrip(chars): drops the longest prefix made of characters of chars.
lstrip(s, chars) ==
  LET keep == {i \in DOMAIN s : s[i] \notin chars}
  IN IF keep = {} THEN <<>> ELSE SubSeq(s, Min(keep), Len(s))

\* str.rstrip(chars): drops the longest suffix made of characters of chars.
rstrip(s, chars) ==
  LET keep == {i \in DOMAIN s : s[i] \notin chars}
  IN IF keep = {} THEN <<>> ELSE SubSeq(s, 1, Max(keep))

\* str.split(c): the segments between every occurrence of c.
RECURSIVE split(_, _)
split(s, c) ==
  LET at == {i \in DOMAIN s : s[i] = c}
  IN IF at = {} THEN <<s>>
     ELSE <<SubSeq(s, 1, Min(at) - 1)>> \o split(SubSeq(s, Min(at) + 1, Len(s)), c)

\* str.replace(a, b) for one-character a and b.
replace(s, a, b) == [i \in DOMAIN s |-> IF s[i] = a THEN b ELSE s[i]]

\* s * k
RECURSIVE repeat(_, _)
repeat(s, k) == IF k = 0 THEN <<>> ELSE s \o repeat(s, k - 1)

\* posixpath.join(a, b): an absolute b discards a.
os_path_join(a, b) ==
  IF b # <<>> /\ b[1] = "/" THEN b
  ELSE IF a = <<>> \/ a[Len(a)] = "/" THEN a \o b
  ELSE a \o <<"/">> \o b

GitHubPrefix ==
  <<"h","t","t","p","s",":","/","/","g","i","t","h","u","b",".","c","o","m","/">>

GitSuffix == <<".","g","i","t">>

ArchiveInfix == <<"/","a","r","c","h","i","v","e","/">>

TarGzSuffix == <<".","t","a","r",".","g","z">>

MarkerSuffix == <<"-","t","a","r",".","g","z">>

ElmPackageJson == <<"e","l","m","-","p","a","c","k","a","g","e",".","j","s","o","n">>

\* ------------------------------------------------------------ pure helpers

format_url(package) ==
  GitHubPrefix \o package.namespace \o <<"/">> \o package.name
    \o ArchiveInfix \o package.version \o TarGzSuffix

\* Variant: name.split('/', 1): only the first '/' separates.
parse_key_first_slash(key) ==
  LET at == {i \in DOMAIN key : key[i] = "/"}
  IN IF at = {} THEN [ok |-> FALSE, namespace |-> <<>>, name |-> <<>>]
     ELSE [ok |-> TRUE, namespace |-> SubSeq(key, 1, Min(at) - 1),
           name |-> SubSeq(key, Min(at) + 1, Len(key))]

\* One key of the manifest: name.split('/') unpacked into two names.
parse_key(key) ==
  LET parts == split(key, "/")
  IN IF Len(parts) = 2
     THEN [ok |-> TRUE, namespace |-> parts[1], name |-> parts[2]]
     ELSE [ok |-> FALSE, namespace |-> <<>>, name |-> <<>>]

\* parse_json on the manifest's items, in the order the dict yields them.
parse_json(raw) ==
  IF \E i \in DOMAIN raw : ~parse_key(raw[i].key).ok
  THEN [ok |-> FALSE, result |-> <<>>]
  ELSE [ok |-> TRUE,
        result |-> [i \in DOMAIN raw |->
                      [namespace |-> parse_key(raw[i].key).namespace,
                       name |-> parse_key(raw[i].key).name,
                       version |-> raw[i].version]]]

format_native_name(namespace, name) ==
  <<"_">> \o replace(namespace, "-", "_") \o <<"$">> \o replace(name, "-", "_")

\* namespace_from_repo: lstrip and rstrip take a SET of characters.
namespace_from_repo(repository) ==
  LET repo_without_domain ==
        rstrip(lstrip(repository, Range(GitHubPrefix)), Range(GitSuffix))
      parts == split(repo_without_domain, "/")
  IN IF Len(parts) = 2
     THEN [ok |-> TRUE, namespace |-> parts[1], name |-> parts[2]]
     ELSE [ok |-> FALSE, namespace |-> <<>>, name |-> <<>>]

\* ------------------------------------------------------------ state

VARIABLES
  manifest,     \* argument: the manifest's items, in the dict's iteration order
  vendor,       \* argument: --vendor-dir
  configs,      \* argument: the --elm-config paths
  writable,     \* environment: whether directories and files can be created
  dirs,         \* disk: the directories that exist
  tars,         \* disk: the archive files that exist
  trees,        \* disk: extracted package directory -> its metadata and symbols
  configFiles,  \* disk: config path -> its JSON document
  pc,           \* where main is
  parsed,       \* main's local: parse_json's result
  packages,     \* main's local: filter_packages' result
  idx,          \* the running loop's position
  repository,   \* update_elm_package's local, then main's
  target,       \* munge_names' locals namespace, name
  procs,        \* the find/sed children launched so far, never waited for
  runs,         \* history: which invocation of main this is
  startPaths,   \* history: the paths on disk when this invocation began
  mkdirDenied,  \* history: makedirs failed in this run for a reason other than 'exists'
  urlopens,     \* history: the urls requested in this run
  fetchFailed,  \* history: the position of the package whose download failed, or 0
  downloaded,   \* history: the packages whose archive was written in this run
  extracted,    \* history: the packages whose archive was extracted in this run
  merged,       \* history: <<config position, package>> merges written in this run
  spawned,      \* history: the packages for which a child was launched in this run
  updLog,       \* history: each rewrite of a config file, its list before and after
  repoArg,      \* namespace_from_repo called alone: its argument
  repoOut,      \* namespace_from_repo called alone: its result
  repoPc        \* namespace_from_repo called alone: before or after the call

vars ==
  <<manifest, vendor, configs, writable, dirs, tars, trees, configFiles, pc,
    parsed, packages, idx, repository, target, procs, runs, startPaths,
    mkdirDenied, urlopens, fetchFailed, downloaded, extracted, merged, spawned,
    updLog, repoArg, repoOut, repoPc>>

argVars == <<manifest, vendor, configs, writable>>

repoVars == <<repoArg, repoOut, repoPc>>

\* ------------------------------------------------------------ file system

\* A path and every directory above it.
Ancestors(path) ==
  {SubSeq(path, 1, i - 1) : i \in {j \in DOMAIN path : j > 1 /\ path[j] = "/"}}
    \cup {path}

\* os.makedirs(path) on the directories ds: what exists afterwards and the
\* error raised, if any.
makedirs(ds, path) ==
  IF path \in ds \/ path \in tars THEN [dirs |-> ds, raised |-> "EEXIST"]
  ELSE IF ~writable THEN [dirs |-> ds, raised |-> "EACCES"]
  ELSE [dirs |-> ds \cup Ancestors(path), raised |-> "none"]

\* format_vendor_dir: the path, the directories afterwards, and whether an
\* error other than 'exists' was caught by the except clause.  Nothing is
\* ever raised to the caller.
format_vendor_dir(ds, base, namespace) ==
  LET path == os_path_join(base, namespace)
      made == makedirs(ds, path)
  IN [path |-> path, dirs |-> made.dirs, denied |-> made.raised = "EACCES"]

package_dir(ds, vendor_dir, package) ==
  LET v == format_vendor_dir(ds, vendor_dir, package.namespace)
  IN [path |-> v.path \o <<"/">> \o package.name \o <<"-">> \o package.version,
      dirs |-> v.dirs, denied |-> v.denied]

format_tar_file(ds, vendor_dir, package) ==
  LET v == format_vendor_dir(ds, vendor_dir, package.namespace)
      p == package_dir(v.dirs, vendor_dir, package)
  IN [path |-> p.path \o MarkerSuffix, dirs |-> p.dirs,
      denied |-> v.denied \/ p.denied]

\* os.path.isdir
isdir(ds, path) == path \in ds

\* filter_packages: the packages kept, and what the path computations did.
RECURSIVE filter_packages(_, _, _)
filter_packages(ds, vendor_dir, pkgs) ==
  IF pkgs = <<>> THEN [result |-> <<>>, dirs |-> ds, denied |-> FALSE]
  ELSE LET t == format_tar_file(ds, vendor_dir, Head(pkgs))
           rest == filter_packages(t.dirs, vendor_dir, Tail(pkgs))
       IN [result |-> IF ~isdir(t.dirs, t.path)
                      THEN <<Head(pkgs)>> \o rest.result ELSE rest.result,
           dirs |-> rest.dirs,
           denied |-> t.denied \/ rest.denied]

\* ------------------------------------------------------------ inputs

\* Manifest entries: two well-formed keys, one key without '/', one with two.
ManifestItems ==
  { [key |-> <<"a","/","n">>, version |-> <<"1">>],
    [key |-> <<"g","-","h","/","m">>, version |-> <<"2">>],
    [key |-> <<"a","n">>, version |-> <<"1">>],
    [key |-> <<"a","/","n","/","x">>, version |-> <<"1">>] }

\* A JSON object has each key once; its iteration order is arbitrary.
Manifests ==
  {m \in UNION {[1..n -> ManifestItems] : n \in 0..MaxPkgs} :
     \A i, j \in DOMAIN m : i # j => m[i] # m[j]}

VendorDirs == { <<"v">>, <<"/","v">> }

ConfigPaths == { <<"c">>, <<"d","/","c">> }

ConfigLists == UNION {[1..n -> ConfigPaths] : n \in 0..MaxConfigs}

\* The repository field: owner/name, here once bare and once with the host.
RepoOf(c) ==
  IF c = <<"c">>
  THEN <<"a","c","m","e","/","a","p","p">> \o GitSuffix
  ELSE GitHubPrefix
         \o <<"N","o","R","e","d","I","n","k","/","n","o","r","e","d","i","n","k">>
         \o GitSuffix

KeysOf(c) ==
  IF c = <<"c">> THEN <<"version", "repository", "source-directories">>
  ELSE <<"source-directories", "repository", "license">>

\* A path the tool itself writes for package a/n 1 under vendor dir v.
VendoredSample == <<"v","/","a","/","n","-","1","/","s">>

OrigSourceDirs ==
  { << <<"r">> >>,
    << <<"r">>, VendoredSample >>,
    << VendoredSample, <<"r">>, VendoredSample >> }

\* The source-directories the fetched archive's own elm-package.json declares.
ArchiveSourceDirs(package) ==
  IF package.version = <<"1">> THEN << <<"s">> >>
  ELSE << <<"s">>, <<"/","t">>, <<"s">> >>

EmptyTrees == [d \in {} |-> 0]

\* The marker paths of the manifest's well-formed entries.
MarkerPaths(m, v) ==
  { os_path_join(v, parse_key(m[i].key).namespace) \o <<"/">>
      \o parse_key(m[i].key).name \o <<"-">> \o m[i].version \o MarkerSuffix
    : i \in {j \in DOMAIN m : parse_key(m[j].key).ok} }

RunInit ==
  /\ pc = "start"
  /\ parsed = <<>>
  /\ packages = <<>>
  /\ idx = 1
  /\ repository = <<>>
  /\ target = <<>>
  /\ mkdirDenied = FALSE
  /\ urlopens = <<>>
  /\ fetchFailed = 0
  /\ downloaded = <<>>
  /\ extracted = <<>>
  /\ merged = {}
  /\ spawned = <<>>

RepoIdle ==
  /\ repoArg = <<>>
  /\ repoOut = [ok |-> FALSE, namespace |-> <<>>, name |-> <<>>]
  /\ repoPc = "idle"

Init ==
  /\ manifest \in Manifests
  /\ vendor \in VendorDirs
  /\ configs \in ConfigLists
  /\ \E orig \in OrigSourceDirs :
       configFiles = [c \in ConfigPaths |->
                        [keys |-> KeysOf(c), repository |-> RepoOf(c),
                         srcdirs |-> orig]]
  /\ \E disk \in {"empty", "markerdirs", "readonly"} :
       /\ writable = (disk # "readonly")
       /\ dirs = IF disk = "markerdirs"
                 THEN UNION {Ancestors(p) : p \in MarkerPaths(manifest, vendor)}
                 ELSE {}
  /\ tars = {}
  /\ trees = EmptyTrees
  /\ procs = <<>>
  /\ runs = 1
  /\ startPaths = dirs
  /\ updLog = <<>>
  /\ RunInit
  /\ RepoIdle

\* ------------------------------------------------------------ config merge

\* get_source_dirs: the package's own elm-package.json, when it is there.
get_source_dirs(ds, vendor_dir, package) ==
  LET d == package_dir(ds, vendor_dir, package)
      elm_package_filename == os_path_join(d.path, ElmPackageJson)
  IN IF elm_package_filename \in {os_path_join(t, ElmPackageJson) : t \in DOMAIN trees}
     THEN [ok |-> TRUE, dirs |-> trees[d.path].srcdirs]
     ELSE [ok |-> FALSE, dirs |-> <<>>]

\* Variant: The ascent prefix left out.
ascent_none(config) == <<>>

\* '../' * config.count('/')
ascent(config) == repeat(<<".",".","/">>, Count(config, "/"))

\* Variant: The membership test left out.
append_always(list, relative_path) == Append(list, relative_path)

\* if relative_path not in data['source-directories']: append
append_if_absent(list, relative_path) ==
  IF relative_path \in Range(list) THEN list ELSE Append(list, relative_path)

\* The loop over one package's declared directories.
RECURSIVE merge_package(_, _, _, _)
merge_package(list, path, pdir, dir_names) ==
  IF dir_names = <<>> THEN list
  ELSE merge_package(
         append_if_absent(list, os_path_join(os_path_join(path, pdir), Head(dir_names))),
         path, pdir, Tail(dir_names))

\* The loop over the packages, for one config file.
RECURSIVE merge_packages(_, _, _, _, _)
merge_packages(list, path, ds, vendor_dir, pkgs) ==
  IF pkgs = <<>> THEN [ok |-> TRUE, srcdirs |-> list]
  ELSE LET cur == get_source_dirs(ds, vendor_dir, Head(pkgs))
           pdir == package_dir(ds, vendor_dir, Head(pkgs)).path
       IN IF ~cur.ok THEN [ok |-> FALSE, srcdirs |-> list]
          ELSE merge_packages(merge_package(list, path, pdir, cur.dirs),
                              path, ds, vendor_dir, Tail(pkgs))

\* ------------------------------------------------------------ main

Abort == pc' = "aborted"

\* read_native_elm_package and parse_json.
main_parse ==
  /\ pc = "start"
  /\ LET p == parse_json(manifest)
     IN IF p.ok THEN /\ parsed' = p.result
                     /\ pc' = "filter"
        ELSE /\ Abort
             /\ UNCHANGED parsed
  /\ UNCHANGED <<argVars, repoVars, dirs, tars, trees, configFiles, packages, idx,
                 repository, target, procs, runs, startPaths, mkdirDenied,
                 urlopens, fetchFailed, downloaded, extracted, merged, spawned,
                 updLog>>

\* filter_packages, with the directories its path computations create.
main_filter ==
  /\ pc = "filter"
  /\ LET f == filter_packages(dirs, vendor, parsed)
     IN /\ packages' = f.result
        /\ dirs' = f.dirs
        /\ mkdirDenied' = (mkdirDenied \/ f.denied)
  /\ pc' = "fetch"
  /\ idx' = 1
  /\ UNCHANGED <<argVars, repoVars, tars, trees, configFiles, parsed, repository,
                 target, procs, runs, startPaths, urlopens, fetchFailed,
                 downloaded, extracted, merged, spawned, updLog>>

\* Variant: The download error caught inside the loop, which goes on to the next package.
urlopen_raises_continue ==
  /\ fetchFailed' = idx
  /\ idx' = idx + 1
  /\ UNCHANGED <<pc, tars, downloaded>>

\* urlopen raises: nothing in fetch_packages or main catches it.
urlopen_raises ==
  /\ fetchFailed' = idx
  /\ Abort
  /\ UNCHANGED <<tars, downloaded, idx>>

\* fetch_packages, one package, lines 84-91: the paths, the request, the
\* archive written.
fetch_download ==
  /\ pc = "fetch"
  /\ idx <= Len(packages)
  /\ LET package == packages[idx]
         t == format_tar_file(dirs, vendor, package)
         v == format_vendor_dir(t.dirs, vendor, package.namespace)
     IN /\ dirs' = v.dirs
        /\ mkdirDenied' = (mkdirDenied \/ t.denied \/ v.denied)
        /\ urlopens' = Append(urlopens, format_url(package))
        /\ \E responded \in BOOLEAN :
             IF ~responded
             THEN urlopen_raises
             ELSE IF v.path \notin v.dirs \/ isdir(v.dirs, t.path)
             THEN \* open(tar_filename, 'w') raises
                  /\ Abort
                  /\ UNCHANGED <<tars, downloaded, fetchFailed, idx>>
             ELSE /\ tars' = tars \cup {t.path}
                  /\ downloaded' = Append(downloaded, package)
                  /\ pc' = "extract"
                  /\ UNCHANGED <<fetchFailed, idx>>
  /\ UNCHANGED <<argVars, repoVars, trees, configFiles, parsed, packages,
                 repository, target, procs, runs, startPaths, extracted, merged,
                 spawned, updLog>>

\* fetch_packages, one package, lines 93-94: the archive extracted into the
\* namespace directory, under the root directory the archive itself names.
fetch_extract ==
  /\ pc = "extract"
  /\ LET package == packages[idx]
         std == package_dir(dirs, vendor, package).path
         tree == [srcdirs |-> ArchiveSourceDirs(package),
                  syms |-> {format_native_name(package.namespace, package.name)}]
     IN \E layout \in {"std", "other", "corrupt"} :
          IF layout = "corrupt"
          THEN \* tarfile.open raises
               /\ Abort
               /\ UNCHANGED <<dirs, trees, extracted, idx>>
          ELSE /\ IF layout = "std"
                  THEN /\ dirs' = dirs \cup {std}
                       /\ trees' = [d \in DOMAIN trees \cup {std} |->
                                      IF d = std THEN tree ELSE trees[d]]
                  ELSE \* the archive's root is not {name}-{version}: the tree
                       \* lands at a path no path computation here ever names
                       UNCHANGED <<dirs, trees>>
               /\ extracted' = Append(extracted, package)
               /\ idx' = idx + 1
               /\ pc' = "fetch"
  /\ UNCHANGED <<argVars, repoVars, tars, configFiles, parsed, packages,
                 repository, target, procs, runs, startPaths, mkdirDenied,
                 urlopens, fetchFailed, downloaded, merged, spawned, updLog>>

\* fetch_packages returns; update_elm_package begins with repository = "".
fetch_return ==
  /\ pc = "fetch"
  /\ idx > Len(packages)
  /\ pc' = "update"
  /\ idx' = 1
  /\ repository' = <<>>
  /\ UNCHANGED <<argVars, repoVars, dirs, tars, trees, configFiles, parsed,
                 packages, target, procs, runs, startPaths, mkdirDenied, urlopens,
                 fetchFailed, downloaded, extracted, merged, spawned, updLog>>

\* Variant: The repository of the first config kept.
read_repository_first(data) == IF idx = 1 THEN data.repository ELSE repository

\* repository = data['repository'], overwritten at every config.
read_repository(data) == data.repository

\* update_elm_package, one config file: load, merge every package, write.
\* The makedirs of its package_dir calls finds the namespace directory of
\* every fetched package in place, so the directories stay as they are.
update_config ==
  /\ pc = "update"
  /\ idx <= Len(configs)
  /\ LET config == configs[idx]
         data == configFiles[config]
         m == merge_packages(data.srcdirs, ascent(config), dirs, vendor, packages)
     IN /\ repository' = read_repository(data)
        /\ IF m.ok
           THEN /\ configFiles' = [configFiles EXCEPT ![config].srcdirs = m.srcdirs]
                /\ merged' = merged \cup {<<idx, packages[i]>> : i \in DOMAIN packages}
                /\ updLog' = Append(updLog, [run |-> runs, config |-> config,
                                              before |-> data.srcdirs,
                                              after |-> m.srcdirs])
                /\ idx' = idx + 1
                /\ UNCHANGED pc
           ELSE \* get_source_dirs raises: the config is not written
                /\ Abort
                /\ UNCHANGED <<configFiles, merged, updLog, idx>>
  /\ UNCHANGED <<argVars, repoVars, dirs, tars, trees, parsed, packages, target,
                 procs, runs, startPaths, mkdirDenied, urlopens, fetchFailed,
                 downloaded, extracted, spawned>>

\* update_elm_package returns the repository it last read.
update_return ==
  /\ pc = "update"
  /\ idx > Len(configs)
  /\ pc' = "munge_start"
  /\ UNCHANGED <<argVars, repoVars, dirs, tars, trees, configFiles, parsed,
                 packages, idx, repository, target, procs, runs, startPaths,
                 mkdirDenied, urlopens, fetchFailed, downloaded, extracted, merged,
                 spawned, updLog>>

\* Variant: The unfiltered list handed to munge_names.
munge_packages_parsed == parsed

\* The list main hands to munge_names: the filtered one.
munge_packages == packages

\* munge_names, line 146.
munge_start ==
  /\ pc = "munge_start"
  /\ LET r == namespace_from_repo(repository)
     IN IF r.ok THEN /\ target' = <<r.namespace, r.name>>
                     /\ pc' = "munge"
                     /\ idx' = 1
        ELSE /\ Abort
             /\ UNCHANGED <<target, idx>>
  /\ UNCHANGED <<argVars, repoVars, dirs, tars, trees, configFiles, parsed,
                 packages, repository, procs, runs, startPaths, mkdirDenied,
                 urlopens, fetchFailed, downloaded, extracted, merged, spawned,
                 updLog>>

\* munge_names, one package: Popen launches find/sed and is not waited for.
munge_spawn ==
  /\ pc = "munge"
  /\ idx <= Len(munge_packages)
  /\ LET package == munge_packages[idx]
         d == package_dir(dirs, vendor, package)
     IN /\ dirs' = d.dirs
        /\ mkdirDenied' = (mkdirDenied \/ d.denied)
        /\ procs' = Append(procs,
                      [run |-> runs, dir |-> d.path,
                       old |-> format_native_name(package.namespace, package.name),
                       new |-> format_native_name(target[1], target[2]),
                       running |-> TRUE])
        /\ spawned' = Append(spawned, package)
  /\ idx' = idx + 1
  /\ UNCHANGED <<argVars, repoVars, tars, trees, configFiles, pc, parsed, packages,
                 repository, target, runs, startPaths, urlopens, fetchFailed,
                 downloaded, extracted, merged, updLog>>

\* munge_names returns and main ends.
munge_return ==
  /\ pc = "munge"
  /\ idx > Len(munge_packages)
  /\ pc' = "done"
  /\ UNCHANGED <<argVars, repoVars, dirs, tars, trees, configFiles, parsed,
                 packages, idx, repository, target, procs, runs, startPaths,
                 mkdirDenied, urlopens, fetchFailed, downloaded, extracted, merged,
                 spawned, updLog>>

\* A launched find/sed child runs to its end, at any time after its launch:
\* s/old/new/g in every regular file under its directory.
sed_finish ==
  /\ \E i \in DOMAIN procs :
       /\ procs[i].running
       /\ procs' = [procs EXCEPT ![i].running = FALSE]
       /\ trees' = [d \in DOMAIN trees |->
                      IF d = procs[i].dir /\ procs[i].old \in trees[d].syms
                      THEN [trees[d] EXCEPT
                              !.syms = (@ \ {procs[i].old}) \cup {procs[i].new}]
                      ELSE trees[d]]
  /\ UNCHANGED <<argVars, repoVars, dirs, tars, configFiles, pc, parsed, packages,
                 idx, repository, target, runs, startPaths, mkdirDenied, urlopens,
                 fetchFailed, downloaded, extracted, merged, spawned, updLog>>

\* The tool is invoked again with the same arguments on the disk as it is.
rerun ==
  /\ pc \in {"done", "aborted"}
  /\ runs < MaxRuns
  /\ runs' = runs + 1
  /\ startPaths' = dirs \cup tars
  /\ pc' = "start"
  /\ parsed' = <<>>
  /\ packages' = <<>>
  /\ idx' = 1
  /\ repository' = <<>>
  /\ target' = <<>>
  /\ mkdirDenied' = FALSE
  /\ urlopens' = <<>>
  /\ fetchFailed' = 0
  /\ downloaded' = <<>>
  /\ extracted' = <<>>
  /\ merged' = {}
  /\ spawned' = <<>>
  /\ UNCHANGED <<argVars, repoVars, dirs, tars, trees, configFiles, procs, updLog>>

Next ==
  \/ main_parse
  \/ main_filter
  \/ fetch_download
  \/ fetch_extract
  \/ fetch_return
  \/ update_config
  \/ update_return
  \/ munge_start
  \/ munge_spawn
  \/ munge_return
  \/ sed_finish
  \/ rerun

Spec == Init /\ [][Next]_vars

\* ------------------------------------------------------------ namespace_from_repo alone

RepoAlphabet == {"g", "b", "x", "/"}

RepoBodies == UNION {[1..n -> RepoAlphabet] : n \in 0..MaxBody}

\* The repository field: owner/name, possibly with the host and a .git suffix.
RepoUrls ==
  {pre \o body \o suf :
     pre \in {<<>>, GitHubPrefix}, body \in RepoBodies, suf \in {<<>>, GitSuffix}}

InitRepo ==
  /\ manifest = <<>>
  /\ vendor = <<"v">>
  /\ configs = <<>>
  /\ configFiles = [c \in ConfigPaths |->
                      [keys |-> KeysOf(c), repository |-> RepoOf(c),
                       srcdirs |-> << <<"r">> >>]]
  /\ writable = TRUE
  /\ dirs = {}
  /\ tars = {}
  /\ trees = EmptyTrees
  /\ procs = <<>>
  /\ runs = 1
  /\ startPaths = {}
  /\ updLog = <<>>
  /\ RunInit
  /\ repoArg \in RepoUrls
  /\ repoOut = [ok |-> FALSE, namespace |-> <<>>, name |-> <<>>]
  /\ repoPc = "before"

repo_call ==
  /\ repoPc = "before"
  /\ repoOut' = namespace_from_repo(repoArg)
  /\ repoPc' = "after"
  /\ UNCHANGED <<argVars, dirs, tars, trees, configFiles, pc, parsed, packages,
                 idx, repository, target, procs, runs, startPaths, mkdirDenied,
                 urlopens, fetchFailed, downloaded, extracted, merged, spawned,
                 updLog, repoArg>>

NextRepo == repo_call

SpecRepo == InitRepo /\ [][NextRepo]_vars

\* ------------------------------------------------------------ properties

\* The packages of the manifest, when every key parses.
ManifestPackages == parse_json(manifest).result

ThisRun(log) == SelectSeq(log, LAMBDA e : e.run = runs)

\* The marker path and the package directory, written out:
\* {vendor_dir}/{namespace}/{name}-{version}-tar.gz and
\* {vendor_dir}/{namespace}/{name}-{version}.
MarkerOf(package) ==
  vendor \o <<"/">> \o package.namespace \o <<"/">> \o package.name \o <<"-">>
    \o package.version \o MarkerSuffix

PackageDirOf(package) ==
  vendor \o <<"/">> \o package.namespace \o <<"/">> \o package.name \o <<"-">>
    \o package.version

MergedInto(package) == {c \in DOMAIN configs : <<c, package>> \in merged}

Touched(package) ==
  \/ format_url(package) \in Range(urlopens)
  \/ package \in Range(downloaded) \cup Range(extracted) \cup Range(spawned)
  \/ MergedInto(package) # {}

\* C1: a package whose archive marker path exists on disk when the run
\* begins is not downloaded, not extracted, merged into no config, and no
\* renaming is started for it.
C1_MarkerSkipsPackage ==
  \A i \in DOMAIN parsed :
    MarkerOf(parsed[i]) \in startPaths => ~Touched(parsed[i])

\* The paths update_elm_package can write into config c.
VendoredPaths(c) ==
  UNION {{os_path_join(os_path_join(ascent(c), PackageDirOf(p)), sub) :
            sub \in Range(ArchiveSourceDirs(p))} : p \in Range(ManifestPackages)}

Idempotent ==
  \A i, j \in DOMAIN updLog :
    (i < j /\ updLog[i].config = updLog[j].config)
      => updLog[j].after = updLog[i].after

\* C2 as stated: a second update of a config leaves the list the first one
\* left, and no vendored path is ever in a list more than once.
C2_IdempotentNoDuplicate ==
  /\ Idempotent
  /\ \A i \in DOMAIN updLog :
       \A p \in VendoredPaths(updLog[i].config) :
         Occurrences(updLog[i].after, p) <= 1

\* C2 amended: a second update of a config leaves the list the first one
\* left, and an update adds no occurrence of a path the list already holds:
\* a path is in the list more than once only as often as the file held it
\* before the update.
C2_IdempotentAddsNoDuplicate ==
  /\ Idempotent
  /\ \A i \in DOMAIN updLog :
       \A p \in Range(updLog[i].after) :
         Occurrences(updLog[i].after, p)
           = IF p \in Range(updLog[i].before)
             THEN Occurrences(updLog[i].before, p) ELSE 1

\* A config rewritten in two runs, the first rewrite having added a path.
C2_Witness ==
  \E i, j \in DOMAIN updLog :
    /\ i < j
    /\ updLog[i].config = updLog[j].config
    /\ updLog[i].run < updLog[j].run
    /\ Len(updLog[i].after) > Len(updLog[i].before)

\* C3: once a download has failed the run is over: the packages before the
\* failing one were each requested once, written and extracted, the failing
\* one was requested once, no later one was requested, no config was written
\* and no renaming was started.
C3_FetchFailFast ==
  fetchFailed # 0 =>
    /\ pc = "aborted"
    /\ urlopens = [i \in 1..fetchFailed |-> format_url(packages[i])]
    /\ downloaded = SubSeq(packages, 1, fetchFailed - 1)
    /\ extracted = SubSeq(packages, 1, fetchFailed - 1)
    /\ merged = {}
    /\ ThisRun(updLog) = <<>>
    /\ spawned = <<>>
    /\ ThisRun(procs) = <<>>

\* The first of two downloads failed.
C3_Witness ==
  /\ fetchFailed = 1
  /\ Len(packages) = 2
  /\ pc = "aborted"

\* C4: when main has ended every substitution it started has completed, and
\* at no time are two substitutions in progress.
C4_MungeSynchronous ==
  /\ pc = "done" => \A i \in DOMAIN procs : ~procs[i].running
  /\ Cardinality({i \in DOMAIN procs : procs[i].running}) <= 1

HasPrefix(s, pre) == Len(s) >= Len(pre) /\ SubSeq(s, 1, Len(pre)) = pre

HasSuffix(s, suf) ==
  Len(s) >= Len(suf) /\ SubSeq(s, Len(s) - Len(suf) + 1, Len(s)) = suf

\* C5: of 'https://github.com/' + body + '.git', namespace_from_repo returns
\* the text before and the text after the '/' of body unchanged when body
\* holds exactly one '/', and fails otherwise.
C5_RepoIdentityExact ==
  ( /\ repoPc = "after"
    /\ HasPrefix(repoArg, GitHubPrefix)
    /\ HasSuffix(repoArg, GitSuffix)
    /\ Len(repoArg) >= Len(GitHubPrefix) + Len(GitSuffix) )
  => LET body == SubSeq(repoArg, Len(GitHubPrefix) + 1, Len(repoArg) - Len(GitSuffix))
         at == {i \in DOMAIN body : body[i] = "/"}
     IN IF Cardinality(at) = 1
        THEN repoOut = [ok |-> TRUE,
                        namespace |-> SubSeq(body, 1, Min(at) - 1),
                        name |-> SubSeq(body, Min(at) + 1, Len(body))]
        ELSE ~repoOut.ok

BadKeys == {i \in DOMAIN manifest : Count(manifest[i].key, "/") # 1}

\* C6: once parsing is over, a manifest with a key that has no '/' or more
\* than one has ended the run with nothing downloaded, no config written and
\* no renaming started; any other manifest has given one record per key, its
\* namespace and name being the text before and after the key's '/'.
C6_ParseKeys ==
  pc # "start" =>
    IF BadKeys # {}
    THEN /\ pc = "aborted"
         /\ parsed = <<>>
         /\ urlopens = <<>>
         /\ downloaded = <<>>
         /\ extracted = <<>>
         /\ ThisRun(updLog) = <<>>
         /\ ThisRun(procs) = <<>>
    ELSE /\ Len(parsed) = Len(manifest)
         /\ \A i \in DOMAIN parsed :
              /\ parsed[i].namespace \o <<"/">> \o parsed[i].name = manifest[i].key
              /\ "/" \notin Range(parsed[i].namespace)
              /\ parsed[i].version = manifest[i].version

\* A manifest whose second key has two '/' ended the run.
C6_Witness ==
  /\ pc = "aborted"
  /\ Len(manifest) = 2
  /\ BadKeys = {2}
  /\ Count(manifest[2].key, "/") = 2

\* C7: a directory creation that fails for a reason other than 'exists'
\* ends the run there, before anything is requested.
C7_MkdirFailureSurfaces ==
  mkdirDenied => (pc = "aborted" /\ urlopens = <<>>)

IsAbs(s) == s # <<>> /\ s[1] = "/"

\* ('../' repeated k times) + packageDir + '/' + subdir
ClaimedPath(c, package, sub) ==
  repeat(<<".",".","/">>, Count(c, "/")) \o PackageDirOf(package) \o <<"/">> \o sub

\* The same, except that an absolute part discards what precedes it.
JoinedPath(c, package, sub) ==
  IF IsAbs(sub) THEN sub
  ELSE IF IsAbs(vendor) THEN PackageDirOf(package) \o <<"/">> \o sub
  ELSE ClaimedPath(c, package, sub)

RECURSIVE Flatten(_)
Flatten(ss) == IF ss = <<>> THEN <<>> ELSE Head(ss) \o Flatten(Tail(ss))

\* The paths of every package's declared directories, in package order then
\* declared order.
Candidates(c, P(_, _, _)) ==
  Flatten([i \in DOMAIN packages |->
             [j \in DOMAIN ArchiveSourceDirs(packages[i]) |->
                P(c, packages[i], ArchiveSourceDirs(packages[i])[j])]])

RECURSIVE Pick(_, _)
Pick(s, K) == IF K = {} THEN <<>> ELSE <<s[Min(K)]>> \o Pick(s, K \ {Min(K)})

\* The candidates not in the list before, each once, in order.
FirstNew(before, cands) ==
  Pick(cands, {i \in DOMAIN cands :
                 /\ cands[i] \notin Range(before)
                 /\ \A j \in 1..(i - 1) : cands[j] # cands[i]})

OnlyAppends(P(_, _, _)) ==
  \A i \in DOMAIN updLog :
    updLog[i].run = runs =>
      /\ updLog[i].after
           = updLog[i].before
               \o FirstNew(updLog[i].before, Candidates(updLog[i].config, P))
      /\ configFiles[updLog[i].config].srcdirs = updLog[i].after
      /\ configFiles[updLog[i].config].keys = KeysOf(updLog[i].config)
      /\ configFiles[updLog[i].config].repository = RepoOf(updLog[i].config)

\* C8 as stated: a rewritten config holds its original list followed by the
\* new paths ('../' * k) + packageDir + '/' + subdir, every other key as it was.
C8_AppendsClaimedPaths == OnlyAppends(ClaimedPath)

\* C8 amended: the same with each path as os.path.join builds it: the claimed
\* path when the vendor dir and the sub-directory are relative, packageDir +
\* '/' + subdir without ascent when the vendor dir is absolute, and the
\* sub-directory alone when it is absolute.
C8_AppendsJoinedPaths == OnlyAppends(JoinedPath)

\* A config one level down, under a relative vendor dir, gained some of the
\* candidate paths and not others.
C8_Witness ==
  \E i \in DOMAIN updLog :
    /\ updLog[i].run = runs
    /\ ~IsAbs(vendor)
    /\ Count(updLog[i].config, "/") = 1
    /\ Len(updLog[i].after) > Len(updLog[i].before) + 1
    /\ Len(updLog[i].after)
         < Len(updLog[i].before) + Len(Candidates(updLog[i].config, JoinedPath))

LastRepository ==
  IF configs = <<>> THEN <<>> ELSE configFiles[configs[Len(configs)]].repository

\* C9: what update_elm_package returns is the repository of the last config
\* of the list, the empty string for an empty list; every child of this run
\* replaces by the prefix derived from that value; with an empty list no
\* child is started and main does not get past namespace_from_repo.
C9_LastRepository ==
  /\ pc \in {"munge_start", "munge", "done"} => repository = LastRepository
  /\ (\E i \in DOMAIN procs : procs[i].run = runs) =>
       LET r == namespace_from_repo(LastRepository)
       IN /\ r.ok
          /\ \A i \in DOMAIN procs :
               procs[i].run = runs =>
                 procs[i].new = format_native_name(r.namespace, r.name)
  /\ configs = <<>> => (pc \notin {"munge", "done"} /\ spawned = <<>>)

\* Two configs with different repositories, and a child started.
C9_Witness ==
  /\ Len(configs) = 2
  /\ configFiles[configs[1]].repository # configFiles[configs[2]].repository
  /\ spawned # <<>>
  /\ pc = "done"

AllMerged(package) == MergedInto(package) = DOMAIN configs /\ configs # <<>>

====
